---- MODULE Spec2Model ----
(***************************************************************************)
(* State-machine model of the spectral feature measurement engine of LEED  *)
(* (src/leed/accessors).  Python indices are 0-based and kept 0-based in   *)
(* the model; TLA+ sequences are 1-based, so element idx of a sequence s   *)
(* is s[idx + 1].  Real numbers are exact rationals <<n, d>> with d >= 0;  *)
(* d = 0 encodes the IEEE specials: <<0,0>> NaN, <<1,0>> +inf, <<-1,0>>    *)
(* -inf; sums and products cancel common factors before multiplying.       *)
(* The wavelength axis is integer valued (an Int64Index, as built by       *)
(* np.arange in src/tests), for which obj[a:b] slices by position.         *)
(***************************************************************************)
EXTENDS Integers, Sequences, FiniteSets, TLC

\* ---------------------------------------------------------------- bounds
MinLen == 21
MaxLen == 22
MaxStep == 5

\* ------------------------------------------------------ exact arithmetic
Abs(n) == IF n < 0 THEN -n ELSE n

Sign(n) == IF n < 0 THEN -1 ELSE IF n > 0 THEN 1 ELSE 0

RECURSIVE GCD(_, _)
GCD(a, b) == IF b = 0 THEN a ELSE GCD(b, a % b)

NaN == <<0, 0>>

Norm(n, d) ==
    IF d = 0 THEN <<Sign(n), 0>>
    ELSE LET g == GCD(Abs(n), Abs(d))
         IN  <<Sign(d) * (n \div g), Abs(d) \div g>>

R(n) == <<n, 1>>

IsNaN(x) == x = NaN

IsFinite(x) == x[2] # 0

RNeg(x) == <<-x[1], x[2]>>

RAdd(x, y) ==
    IF IsNaN(x) \/ IsNaN(y) THEN NaN
    ELSE IF ~IsFinite(x) THEN (IF ~IsFinite(y) /\ y # x THEN NaN ELSE x)
    ELSE IF ~IsFinite(y) THEN y
    ELSE LET g == GCD(x[2], y[2])
         IN  Norm(x[1] * (y[2] \div g) + y[1] * (x[2] \div g),
                  (x[2] \div g) * y[2])

RSub(x, y) == RAdd(x, RNeg(y))

RMul(x, y) ==
    IF IsNaN(x) \/ IsNaN(y) THEN NaN
    ELSE IF ~IsFinite(x) \/ ~IsFinite(y)
         THEN <<Sign(x[1]) * Sign(y[1]), 0>>
    ELSE LET g == GCD(Abs(x[1]), y[2])
             h == GCD(Abs(y[1]), x[2])
         IN  Norm((x[1] \div g) * (y[1] \div h), (x[2] \div h) * (y[2] \div g))

RDiv(x, y) ==
    IF IsNaN(x) \/ IsNaN(y) THEN NaN
    ELSE IF ~IsFinite(y) THEN (IF ~IsFinite(x) THEN NaN ELSE R(0))
    ELSE IF ~IsFinite(x) THEN <<x[1] * (IF y[1] < 0 THEN -1 ELSE 1), 0>>
    ELSE IF y[1] = 0 THEN <<Sign(x[1]), 0>>
    ELSE LET g == GCD(Abs(x[1]), Abs(y[1]))
             h == GCD(x[2], y[2])
         IN  Norm((x[1] \div g) * (y[2] \div h), (x[2] \div h) * (y[1] \div g))

RECURSIVE RSum(_)
RSum(s) == IF s = <<>> THEN R(0) ELSE RAdd(Head(s), RSum(Tail(s)))

\* ------------------------------------------------------------ the series
\* A pandas Series is a sequence of records [w |-> wavelength, f |-> flux],
\* w an integer and f a rational.
WaveStart == 100

Max(a, b) == IF a > b THEN a ELSE b

Min(a, b) == IF a < b THEN a ELSE b

\* Python slice seq[a:b] (step 1) for integers a, b of either sign.
PySlice(s, a, b) ==
    LET n  == Len(s)
        lo == IF a < 0 THEN Max(n + a, 0) ELSE Min(a, n)
        hi == IF b < 0 THEN Max(n + b, 0) ELSE Min(b, n)
    IN  IF lo < hi THEN SubSeq(s, lo + 1, hi) ELSE <<>>

arange(start, stop) == [k \in 1..Max(stop - start, 0) |-> start + k - 1]

\* simulate.tophat: flux = m * wave + b, then flux[start:end] = height.
tophat(wv, m, b, start, end, height) ==
    LET n  == Len(wv)
        lo == IF start < 0 THEN Max(n + start, 0) ELSE Min(start, n)
        hi == IF end < 0 THEN Max(n + end, 0) ELSE Min(end, n)
    IN  [k \in 1..n |->
            [w |-> wv[k],
             f |-> IF lo < k /\ k <= hi THEN R(height) ELSE R(m * wv[k] + b)]]

wave(obj) == [k \in 1..Len(obj) |-> obj[k].w]

flux(obj) == [k \in 1..Len(obj) |-> obj[k].f]

\* ------------------------------------------------------------ validation
\* Base.__init__ stores the series and raises nothing.
initRaises(obj) == FALSE

\* pandas Index.is_monotonic: monotonic increasing, equal neighbours allowed.
isMonotonic(wv) == \A k \in 1..(Len(wv) - 1) : wv[k] <= wv[k + 1]

\* Base.validate raises ValueError when the index is not monotonic.
validateRaises(obj) == ~isMonotonic(wave(obj))

\* ----------------------------------------------------- pseudo continuum
\* calcPseudoContinuum.fitPseudoContinuum; wave[0] raises IndexError on an
\* empty series (fitPseudoContinuumRaises).
fitPseudoContinuumRaises(obj) == Len(obj) = 0

\* fitPseudoContinuum drawing the line through the first two samples.
fitPseudoContinuum_FirstTwo(obj) ==
    LET x0 == R(obj[1].w)
        x1 == R(obj[Min(2, Len(obj))].w)
        y0 == obj[1].f
        y1 == obj[Min(2, Len(obj))].f
        m  == RDiv(RSub(y0, y1), RSub(x0, x1))
        b  == RAdd(RMul(RNeg(m), x0), y0)
    IN  [k \in 1..Len(obj) |->
            [w |-> obj[k].w, f |-> RAdd(RMul(m, R(obj[k].w)), b)]]

fitPseudoContinuum(obj) ==
    LET x0 == R(obj[1].w)
        x1 == R(obj[Len(obj)].w)
        y0 == obj[1].f
        y1 == obj[Len(obj)].f
        m  == RDiv(RSub(y0, y1), RSub(x0, x1))
        b  == RAdd(RMul(RNeg(m), x0), y0)
    IN  [k \in 1..Len(obj) |->
            [w |-> obj[k].w, f |-> RAdd(RMul(m, R(obj[k].w)), b)]]

\* FeatureAccessor.fit_pseudo_continuum: the same line, returned as the
\* array m * self.wave + b.
fit_pseudo_continuum(obj) ==
    LET x0 == R(obj[1].w)
        x1 == R(obj[Len(obj)].w)
        y0 == obj[1].f
        y1 == obj[Len(obj)].f
        m  == RDiv(RSub(y0, y1), RSub(x0, x1))
        b  == RAdd(RMul(RNeg(m), x0), y0)
    IN  [k \in 1..Len(obj) |-> RAdd(RMul(m, R(obj[k].w)), b)]

\* ------------------------------------------------------------ integration
\* np.trapz without the halving of each trapezoid.
trapz_NoHalving(y, x) ==
    RSum([k \in 1..Max(Len(x) - 1, 0) |->
            RMul(RSub(x[k + 1], x[k]), RAdd(y[k + 1], y[k]))])

\* np.trapz(y, x): sum of (x[k+1] - x[k]) * (y[k+1] + y[k]) / 2.
trapz(y, x) ==
    RSum([k \in 1..Max(Len(x) - 1, 0) |->
            RDiv(RMul(RSub(x[k + 1], x[k]), RAdd(y[k + 1], y[k])), R(2))])

\* np.interp(x, xp, fp): piecewise linear inside [xp[0], xp[-1]], the end
\* values fp[0] / fp[-1] outside of it.
npInterp(x, xp, fp) ==
    LET n == Len(xp)
    IN  IF x <= xp[1] THEN fp[1]
        ELSE IF x >= xp[n] THEN fp[n]
        ELSE LET k == CHOOSE q \in 1..(n - 1) : xp[q] <= x /\ x < xp[q + 1]
             IN  RAdd(fp[k],
                      RMul(R(x - xp[k]),
                           RDiv(RSub(fp[k + 1], fp[k]), R(xp[k + 1] - xp[k]))))

SeqMin(s) == CHOOSE v \in {s[k] : k \in 1..Len(s)} :
                 \A u \in {s[k] : k \in 1..Len(s)} : v <= u

SeqMax(s) == CHOOSE v \in {s[k] : k \in 1..Len(s)} :
                 \A u \in {s[k] : k \in 1..Len(s)} : v >= u

RSeq(s) == [k \in 1..Len(s) |-> R(s[k])]

\* self.wave.min() and np.interp raise ValueError on an empty array.
continuumAreaRaises(obj, continuum) == Len(obj) = 0 \/ Len(continuum) = 0

\* _continuum_area as the rectangle under the continuum's first value.
continuumArea_Rectangle(obj, continuum) ==
    LET y1 == npInterp(SeqMin(wave(obj)), wave(continuum), flux(continuum))
    IN  RMul(R(obj[Len(obj)].w - obj[1].w), y1)

\* CalcArea._continuum_area
continuumArea(obj, continuum) ==
    LET y1 == npInterp(SeqMin(wave(obj)), wave(continuum), flux(continuum))
        y2 == npInterp(SeqMax(wave(obj)), wave(continuum), flux(continuum))
    IN  RDiv(RMul(R(obj[Len(obj)].w - obj[1].w), RAdd(y1, y2)), R(2))

\* CalcArea._flux_area
fluxArea(obj) == trapz(flux(obj), RSeq(wave(obj)))

\* area with the two terms exchanged.
area_FluxMinusContinuum(obj, continuum) ==
    RSub(fluxArea(obj), continuumArea(obj, continuum))

\* CalcArea.area
area(obj, continuum) == RSub(continuumArea(obj, continuum), fluxArea(obj))

\* pandas Series / Series: aligned on the union of the two indexes, NaN
\* where either side has no value for a wavelength.
RECURSIVE SortedSeq(_)
SortedSeq(S) ==
    IF S = {} THEN <<>>
    ELSE LET lo == CHOOSE v \in S : \A u \in S : v <= u
         IN  <<lo>> \o SortedSeq(S \ {lo})

Lookup(obj, w) ==
    IF \E k \in 1..Len(obj) : obj[k].w = w
    THEN obj[CHOOSE k \in 1..Len(obj) : obj[k].w = w].f
    ELSE NaN

seriesDiv(a, b) ==
    IF wave(a) = wave(b)
    THEN [k \in 1..Len(a) |-> [w |-> a[k].w, f |-> RDiv(a[k].f, b[k].f)]]
    ELSE LET idx == SortedSeq({a[k].w : k \in 1..Len(a)}
                               \cup {b[k].w : k \in 1..Len(b)})
         IN  [k \in 1..Len(idx) |->
                 [w |-> idx[k], f |-> RDiv(Lookup(a, idx[k]), Lookup(b, idx[k]))]]

\* self.wave[-1] raises IndexError on an empty series.
pewRaises(obj) == Len(obj) = 0

\* pew integrating the difference flux - continuum instead of the ratio.
pew_Difference(obj, continuum) ==
    RSub(R(obj[Len(obj)].w - obj[1].w),
         trapz([k \in 1..Len(obj) |-> RSub(obj[k].f, Lookup(continuum, obj[k].w))],
               RSeq(wave(obj))))

\* CalcPEW.pew
pew(obj, continuum) ==
    RSub(R(obj[Len(obj)].w - obj[1].w),
         trapz(flux(seriesDiv(obj, continuum)), RSeq(wave(obj))))

\* ------------------------------------------------------------ peak search
\* FeatureAccessor.find_peak_wavelength raises FeatureNotObserved when no
\* wavelength lies strictly between the bounds.
featureNotObserved(obj, lower_bound, upper_bound) ==
    ~\E k \in 1..Len(obj) : obj[k].w > lower_bound /\ obj[k].w < upper_bound

\* find_peak_wavelength selecting strictly inside the bounds.
find_peak_wavelength_StrictRange(obj, lower_bound, upper_bound, behavior) ==
    LET feature_indices == {k \in 1..Len(obj) :
                               lower_bound < obj[k].w /\ obj[k].w < upper_bound}
        npMax == CHOOSE v \in {obj[k].f : k \in feature_indices} :
                     \A k \in feature_indices : ~(v[1] * obj[k].f[2] < obj[k].f[1] * v[2])
        peak_wavelengths == {obj[k].w : k \in {q \in feature_indices : obj[q].f = npMax}}
    IN  IF behavior = "min"
        THEN CHOOSE v \in peak_wavelengths : \A u \in peak_wavelengths : v <= u
        ELSE CHOOSE v \in peak_wavelengths : \A u \in peak_wavelengths : v >= u

\* find_peak_wavelength past the check: the smallest ('min') or largest
\* ('max') wavelength, among those with lower_bound <= wave <= upper_bound,
\* whose flux is the maximum flux of that selection.
find_peak_wavelength(obj, lower_bound, upper_bound, behavior) ==
    LET feature_indices == {k \in 1..Len(obj) :
                               lower_bound <= obj[k].w /\ obj[k].w <= upper_bound}
        npMax == CHOOSE v \in {obj[k].f : k \in feature_indices} :
                     \A k \in feature_indices : ~(v[1] * obj[k].f[2] < obj[k].f[1] * v[2])
        peak_wavelengths == {obj[k].w : k \in {q \in feature_indices : obj[q].f = npMax}}
    IN  IF behavior = "min"
        THEN CHOOSE v \in peak_wavelengths : \A u \in peak_wavelengths : v <= u
        ELSE CHOOSE v \in peak_wavelengths : \A u \in peak_wavelengths : v >= u

\* --------------------------------------------------------------- binning
\* scipy.ndimage boundary mode 'reflect' (d c b a | a b c d | d c b a): the
\* 0-based index of an array of n values that position q falls on.
reflectIdx(q, n) ==
    LET p == q % (2 * n)
    IN  IF p < n THEN p ELSE 2 * n - 1 - p

\* The size values a 1-d filter sees at 0-based position idx: the window
\* starts size // 2 before idx.
filterWindow(fl, idx, size) ==
    [k \in 1..size |-> fl[reflectIdx(idx - (size \div 2) + k - 1, Len(fl)) + 1]]

RLess(x, y) == x[1] * y[2] < y[1] * x[2]

\* median_filter: the value of rank size // 2 in the sorted window.
rankMedian(win) ==
    LET n == Len(win)
    IN  CHOOSE v \in {win[k] : k \in 1..n} :
            /\ Cardinality({k \in 1..n : RLess(win[k], v)}) <= n \div 2
            /\ Cardinality({k \in 1..n : ~RLess(v, win[k])}) > n \div 2

\* bin accepting every method name.
binRaises_Never(method) == FALSE

\* SpectrumAccessor.bin raises ValueError for a method it does not know.
binRaises(method) == method \notin {"sum", "average", "gauss", "median"}

\* SpectrumAccessor.bin, for a float flux: the filtered flux on the
\* wavelengths of the series.  The values of gaussian_filter (a convolution
\* with a sampled exp) are kept symbolic.
bin(obj, size, method) ==
    LET win(k) == filterWindow(flux(obj), k - 1, size)
        filtered ==
            IF method = "sum" THEN [k \in 1..Len(obj) |-> RSum(win(k))]
            ELSE IF method = "average"
                 THEN [k \in 1..Len(obj) |-> RDiv(RSum(win(k)), R(size))]
            ELSE IF method = "gauss"
                 THEN [k \in 1..Len(obj) |->
                          [gaussian_filter |-> flux(obj), sigma |-> size, at |-> k - 1]]
            ELSE [k \in 1..Len(obj) |-> rankMedian(win(k))]
    IN  [k \in 1..Len(obj) |-> [w |-> obj[k].w, f |-> filtered[k]]]

\* ------------------------------------------------------------ rest frame
\* restFrame dividing the flux by 1 + z as well.
toRestFrame_ScalesFlux(obj, z) ==
    [self |-> obj,
     out  |-> [k \in 1..Len(obj) |->
                  [w |-> RDiv(R(obj[k].w), RAdd(R(1), z)),
                   f |-> RDiv(obj[k].f, RAdd(R(1), z))]]]

\* SpectrumAccessor.restFrame: out = self._obj.copy(); out.index /= (1 + z).
\* self is the wrapped series after the call, out the returned one, whose
\* wavelengths are no longer integers.
toRestFrame(obj, z) ==
    [self |-> obj,
     out  |-> [k \in 1..Len(obj) |->
                  [w |-> RDiv(R(obj[k].w), RAdd(R(1), z)), f |-> obj[k].f]]]

\* ---------------------------------------------------------- line velocity
\* GaussianFit: the four fitted parameters and the 4x4 covariance matrix.
GaussianFit(amplitude, avg, stdDev, offset, cov) ==
    [amplitude |-> amplitude, avg |-> avg, stdDev |-> stdDev,
     offset |-> offset, cov |-> cov]

npFull(v) == [r \in 1..4 |-> [c \in 1..4 |-> v]]

Diag(v) == [r \in 1..4 |-> [c \in 1..4 |-> IF r = c THEN v ELSE R(0)]]

npMedian(s) ==
    LET n == Len(s)
    IN  IF n = 0 THEN NaN
        ELSE IF n % 2 = 1 THEN R(s[(n + 1) \div 2])
        ELSE RDiv(R(s[n \div 2] + s[n \div 2 + 1]), R(2))

\* curve_fit refuses fewer data points than parameters with a TypeError,
\* which _fitGaussian does not catch.
fitGaussianRaises(obj) == Len(obj) < 4

\* scipy's curve_fit is external: it either gives up (RuntimeError) or
\* returns four parameters, the mean lying on the window, with a covariance
\* whose variances are some v >= 0.
CurveFitOutcomes(obj) ==
    {[kind |-> "RuntimeError"]}
    \cup {[kind |-> "ok", params |-> <<R(1), avg, R(50), R(0)>>, cov |-> Diag(R(v))] :
            avg \in {R(obj[1].w), npMedian(wave(obj))}, v \in {0, 1}}

\* _fitGaussian substituting its initial guess p0 when the optimizer fails.
fitGaussian_InitialGuess(obj, cf) ==
    IF cf.kind = "RuntimeError"
    THEN GaussianFit(<<1, 2>>, npMedian(wave(obj)), R(50), R(0), npFull(NaN))
    ELSE GaussianFit(cf.params[1], cf.params[2], cf.params[3], cf.params[4], cf.cov)

\* CalcVelocity._fitGaussian for the outcome cf of curve_fit: RuntimeError is
\* caught and replaced by the all-NaN fit.
fitGaussian(obj, cf) ==
    IF cf.kind = "RuntimeError"
    THEN GaussianFit(NaN, NaN, NaN, NaN, npFull(NaN))
    ELSE GaussianFit(cf.params[1], cf.params[2], cf.params[3], cf.params[4], cf.cov)

\* The fits _fitGaussian can return on a window.
FitGaussianResults(obj) == {fitGaussian(obj, cf) : cf \in CurveFitOutcomes(obj)}

\* Velocities are expressed in units of the speed of light (astropy's
\* c.to(km / s).value is a constant scale factor).
speedOfLight == R(1)

\* velocity by the first-order Doppler formula c * (rest - mean) / rest.
velocity_FirstOrder(restFrame, gaussFit) ==
    RMul(speedOfLight, RDiv(RSub(R(restFrame), gaussFit.avg), R(restFrame)))

\* CalcVelocity.velocity, for the fit returned by _fitGaussian.
velocity(restFrame, gaussFit) ==
    LET ratio == RAdd(RDiv(RSub(R(restFrame), gaussFit.avg), R(restFrame)), R(1))
        sq    == RMul(ratio, ratio)
    IN  RMul(speedOfLight, RDiv(RSub(sq, R(1)), RAdd(sq, R(1))))

\* ------------------------------------------------------------- accessors
\* Attributes an instance of each class resolves, by its own body and its
\* bases.  pandas builds series.feature as FeatureAccessor(series).
BaseAttrs == {"validate", "wave", "flux"}

CalcAreaAttrs == {"_continuum_area", "_flux_area", "area"} \cup BaseAttrs

CalcPEWAttrs == {"pew"} \cup BaseAttrs

CalcVelocityAttrs == {"gaussian", "_fitGaussian", "velocity"} \cup BaseAttrs

calcPseudoContinuumAttrs == {"fitPseudoContinuum"} \cup BaseAttrs

FeatureAccessorAttrs ==
    {"find_peak_wavelength", "guess_bounds", "fit_pseudo_continuum"}
    \cup CalcAreaAttrs \cup CalcPEWAttrs \cup CalcVelocityAttrs

\* ----------------------------------------------------------- aggregation
npMean(s) == IF s = <<>> THEN NaN ELSE RDiv(RSum(s), R(Len(s)))

ISqrt(n) == CHOOSE r \in 0..n : r * r <= n /\ (r + 1) * (r + 1) > n

\* Square root: exact when the radicand is a square, symbolic otherwise.
RSqrt(x) ==
    IF ~IsFinite(x) THEN x
    ELSE IF x[1] < 0 THEN NaN
    ELSE IF ISqrt(x[1]) * ISqrt(x[1]) = x[1] /\ ISqrt(x[2]) * ISqrt(x[2]) = x[2]
         THEN <<ISqrt(x[1]), ISqrt(x[2])>>
    ELSE [sqrt |-> x]

\* np.std: population standard deviation.
npStd(s) ==
    LET mu == npMean(s)
    IN  RSqrt(npMean([k \in 1..Len(s) |-> RMul(RSub(s[k], mu), RSub(s[k], mu))]))

\* uncertainties.nominal_value / std_dev of a plain float (neither
\* velocity, pew nor area returns a number carrying an uncertainty).
uncNominalValue(x) == x

uncStdDev(x) == R(0)

\* ========================================================= state machine
VARIABLES
    obj,              \* the spectrum the accessor wraps (self._obj)
    pc,               \* "idle", "loop" (lines 129-147) or "done" (call ended)
    args,             \* arguments of the call under way or ended
    idxStart,         \* index of featStart in the wavelength axis
    idxEnd,           \* index of featEnd in the wavelength axis
    iter,             \* 1-based position in the (i, j) iteration order
    i,                \* loop variable of the outer loop
    j,                \* loop variable of the inner loop
    sample,           \* the sub-series of the current iteration
    velocitySamples,  \* the list velocity
    pEquivWidth,      \* the list pEquivWidth
    areaSamples,      \* the list area
    gaussFits,        \* the GaussianFit velocity() obtained for each window
    callbackLog,      \* arguments the callback has been invoked with
    outcome,          \* "none", "returned" or the exception raised
    result            \* the returned list

vars == <<obj, pc, args, idxStart, idxEnd, iter, i, j, sample, velocitySamples,
          pEquivWidth, areaSamples, gaussFits, callbackLog, outcome, result>>

\* Simulated spectra: a top-hat feature on a flat or sloped continuum.
Spectra ==
    {tophat(arange(WaveStart, WaveStart + n), mb[1], mb[2], 3, -3, 0) :
        n \in MinLen..MaxLen, mb \in {<<0, 10>>, <<1, 10>>}}

Wavelengths == (WaveStart - 1)..(WaveStart + MaxLen)

StepInputs == (-1)..MaxStep

RestFrames == {WaveStart + 10}

NoArgs == [featStart |-> 0, featEnd |-> 0, restFrame |-> 0, nstep |-> 0,
           callback |-> FALSE]

Init ==
    /\ obj \in Spectra
    /\ pc = "idle"
    /\ args = NoArgs
    /\ idxStart = 0
    /\ idxEnd = 0
    /\ iter = 0
    /\ i = 0
    /\ j = 0
    /\ sample = <<>>
    /\ velocitySamples = <<>>
    /\ pEquivWidth = <<>>
    /\ areaSamples = <<>>
    /\ gaussFits = <<>>
    /\ callbackLog = <<>>
    /\ outcome = "none"
    /\ result = <<>>

\* The boundary located at the nearest wavelength instead of an equal one.
npWhere_Nearest(wv, x) ==
    {k - 1 : k \in {q \in 1..Len(wv) :
                       \A p \in 1..Len(wv) : Abs(wv[q] - x) <= Abs(wv[p] - x)}}

\* np.where(wave == x)[0]: the indices (0-based) at which wave equals x.
npWhere(wv, x) == {k - 1 : k \in {q \in 1..Len(wv) : wv[q] = x}}

First(S) == CHOOSE v \in S : \A u \in S : v <= u

\* Grid with the inner loop running upwards (j from -nstep to +nstep).
Grid_AscendingJ(nstep) ==
    LET side == Max(2 * nstep + 1, 0)
    IN  [k \in 1..(side * side) |->
            <<-nstep + ((k - 1) \div side), -nstep + ((k - 1) % side)>>]

\* The (i, j) pairs in the order the nested loops visit them:
\* i over np.arange(-nstep, nstep + 1), j over np.arange(nstep, -nstep - 1, -1).
Grid(nstep) ==
    LET side == Max(2 * nstep + 1, 0)
    IN  [k \in 1..(side * side) |->
            <<-nstep + ((k - 1) \div side), nstep - ((k - 1) % side)>>]

Raise(exc) ==
    /\ outcome' = exc
    /\ pc' = "done"
    /\ result' = <<>>

\* OutOfRange accepting an end index one past the last sample.
OutOfRange_EndInclusive(idxSampleStart, idxSampleEnd) ==
    idxSampleStart < 0 \/ idxSampleEnd > Len(obj)

\* The slice bound test of line 136.
OutOfRange(idxSampleStart, idxSampleEnd) ==
    idxSampleStart < 0 \/ idxSampleEnd >= Len(obj)

\* TooNarrow with a strict comparison.
TooNarrow_Strict(iStart, iEnd) == iEnd - iStart < 10

\* The span test of line 123.
TooNarrow(iStart, iEnd) == iEnd - iStart <= 10

\* sampleFeatureProperties, lines 120-128: locate the boundaries, reject a
\* narrow feature, initialise the lists.
Call(featStart, featEnd, restFrame, nstep, callback) ==
    /\ pc = "idle"
    /\ args' = [featStart |-> featStart, featEnd |-> featEnd,
                restFrame |-> restFrame, nstep |-> nstep, callback |-> callback]
    /\ velocitySamples' = <<>>
    /\ pEquivWidth' = <<>>
    /\ areaSamples' = <<>>
    /\ gaussFits' = <<>>
    /\ UNCHANGED <<obj, i, j, sample, callbackLog>>
    /\ IF npWhere(wave(obj), featStart) = {}
       THEN Raise("IndexError") /\ UNCHANGED <<idxStart, idxEnd, iter>>
       ELSE /\ idxStart' = First(npWhere(wave(obj), featStart))
            /\ IF npWhere(wave(obj), featEnd) = {}
               THEN Raise("IndexError") /\ UNCHANGED <<idxEnd, iter>>
               ELSE /\ idxEnd' = First(npWhere(wave(obj), featEnd))
                    /\ IF TooNarrow(idxStart', idxEnd')
                       THEN Raise("ValueError") /\ UNCHANGED iter
                       ELSE /\ pc' = "loop"
                            /\ iter' = 1
                            /\ UNCHANGED <<outcome, result>>

\* One pass through the loop body, lines 132-147.  sample.feature is a
\* FeatureAccessor; line 141 looks fitPseudoContinuum up on it.
Iterate ==
    /\ pc = "loop"
    /\ iter <= Len(Grid(args.nstep))
    /\ UNCHANGED <<obj, args, idxStart, idxEnd>>
    /\ i' = Grid(args.nstep)[iter][1]
    /\ j' = Grid(args.nstep)[iter][2]
    /\ LET idxSampleStart == idxStart + i'
           idxSampleEnd == idxEnd + j'
           smp == PySlice(obj, idxSampleStart, idxSampleEnd)
           unmeasured == UNCHANGED <<velocitySamples, pEquivWidth, areaSamples,
                                     gaussFits, callbackLog, iter>>
       IN  IF OutOfRange(idxSampleStart, idxSampleEnd)
           THEN Raise("SamplingRangeError") /\ unmeasured /\ UNCHANGED sample
           ELSE /\ sample' = smp
                /\ IF "fitPseudoContinuum" \notin FeatureAccessorAttrs
                   THEN Raise("AttributeError") /\ unmeasured
                   ELSE IF fitPseudoContinuumRaises(smp)
                   THEN Raise("IndexError") /\ unmeasured
                   ELSE IF fitGaussianRaises(smp)
                   THEN Raise("TypeError") /\ unmeasured
                   ELSE \E gaussFit \in FitGaussianResults(smp) :
                        LET continuum == fitPseudoContinuum(smp)
                        IN  /\ gaussFits' = Append(gaussFits, gaussFit)
                            /\ velocitySamples' =
                                 Append(velocitySamples,
                                        velocity(args.restFrame, gaussFit))
                            /\ pEquivWidth' = Append(pEquivWidth, pew(smp, continuum))
                            /\ areaSamples' = Append(areaSamples, area(smp, continuum))
                            /\ callbackLog' = IF args.callback
                                              THEN Append(callbackLog, smp)
                                              ELSE callbackLog
                            /\ iter' = iter + 1
                            /\ UNCHANGED <<pc, outcome, result>>

\* Lines 149-163: the loops are exhausted, aggregate and return.
Aggregate ==
    /\ pc = "loop"
    /\ iter > Len(Grid(args.nstep))
    /\ LET avgVelocity == npMean(velocitySamples)
           avgEw == npMean(pEquivWidth)
           avgArea == npMean(areaSamples)
       IN  result' = <<uncNominalValue(avgVelocity), uncStdDev(avgVelocity),
                       npStd(velocitySamples),
                       uncNominalValue(avgEw), uncStdDev(avgEw),
                       npStd(pEquivWidth),
                       uncNominalValue(avgArea), uncStdDev(avgArea),
                       npStd(areaSamples)>>
    /\ outcome' = "returned"
    /\ pc' = "done"
    /\ UNCHANGED <<obj, args, idxStart, idxEnd, iter, i, j, sample,
                   velocitySamples, pEquivWidth, areaSamples, gaussFits, callbackLog>>

\* A caller invokes series.spectrum.sampleFeatureProperties(...).
sampleFeatureProperties ==
    /\ pc = "idle"
    /\ \E featStart \in Wavelengths, featEnd \in Wavelengths,
          restFrame \in RestFrames, nstep \in StepInputs, callback \in BOOLEAN :
           Call(featStart, featEnd, restFrame, nstep, callback)

Next ==
    \/ sampleFeatureProperties
    \/ Iterate
    \/ Aggregate

Spec == Init /\ [][Next]_vars

\* ================================================================ claims
Done == pc = "done"

\* Both boundaries are wavelengths of the series.
Found ==
    /\ npWhere(wave(obj), args.featStart) # {}
    /\ npWhere(wave(obj), args.featEnd) # {}

IdxOf(x) == First(npWhere(wave(obj), x))

Span == IdxOf(args.featEnd) - IdxOf(args.featStart)

Offsets == (-args.nstep)..args.nstep

NumWindows == (2 * args.nstep + 1) * (2 * args.nstep + 1)

\* A call whose boundaries are found, far enough apart and whose every
\* perturbed boundary is an index of the series.
InRangeCall ==
    /\ Found
    /\ args.nstep >= 0
    /\ Span > 10
    /\ IdxOf(args.featStart) - args.nstep >= 0
    /\ IdxOf(args.featEnd) + args.nstep < Len(obj)

Nothing ==
    /\ sample = <<>>
    /\ velocitySamples = <<>>
    /\ pEquivWidth = <<>>
    /\ areaSamples = <<>>
    /\ gaussFits = <<>>
    /\ callbackLog = <<>>

\* C1: a call on a wide enough window whose perturbed boundaries all stay
\* inside the series completes without raising and returns nine values:
\* velocity, pEW and area, each followed by its formal and sampling error.
C1_ReturnsNineValues ==
    (Done /\ InRangeCall) =>
        /\ outcome = "returned"
        /\ Len(result) = 9

\* C2: a call over in-range windows returns having invoked the callback
\* (2 * nstep + 1)^2 times, once per window, i ascending in the outer loop
\* and j descending in the inner loop, each time with that window.
C2_CallbackPerWindow ==
    (Done /\ InRangeCall /\ args.callback) =>
        /\ outcome = "returned"
        /\ Len(callbackLog) = NumWindows
        /\ \A k \in 1..NumWindows :
              LET di == -args.nstep + ((k - 1) \div (2 * args.nstep + 1))
                  dj == args.nstep - ((k - 1) % (2 * args.nstep + 1))
              IN  callbackLog[k] = PySlice(obj, idxStart + di, idxEnd + dj)

\* C3: the sub-series taken for the pair (i, j) starts at the sample of
\* index idxStart + i and ends at the sample of index idxEnd + j.
C3_WindowEndpoints ==
    (sample # <<>>) =>
        /\ sample[1] = obj[idxStart + i + 1]
        /\ sample[Len(sample)] = obj[idxEnd + j + 1]

\* C4: the call fails with ValueError exactly when idxEnd - idxStart <= 10,
\* whatever nstep, and then no window has been sliced or measured and the
\* callback has not been invoked.
C4_WindowTooNarrow ==
    (Done /\ Found) =>
        /\ (outcome = "ValueError") <=> (Span <= 10)
        /\ (outcome = "ValueError") => Nothing

C4_Witness ==
    /\ Done
    /\ Found
    /\ Span = 10
    /\ args.nstep > 0
    /\ outcome = "ValueError"

\* C5: for a window wider than 10 samples, SamplingRangeError is raised
\* when some perturbed start index is negative or some perturbed end index
\* is past the last sample, and is not raised when every perturbed start
\* and end index is an index of the series.
C5_SamplingRangeError ==
    (Done /\ Found /\ Span > 10 /\ args.nstep >= 0) =>
        /\ (\E di \in Offsets, dj \in Offsets :
               \/ IdxOf(args.featStart) + di < 0
               \/ IdxOf(args.featEnd) + dj > Len(obj) - 1)
           => outcome = "SamplingRangeError"
        /\ (\A di \in Offsets, dj \in Offsets :
               /\ IdxOf(args.featStart) + di \in 0..(Len(obj) - 1)
               /\ IdxOf(args.featEnd) + dj \in 0..(Len(obj) - 1))
           => outcome # "SamplingRangeError"

C5_Witness ==
    /\ Done
    /\ Found
    /\ Span > 10
    /\ args.nstep > 0
    /\ IdxOf(args.featStart) - args.nstep >= 0
    /\ IdxOf(args.featEnd) + args.nstep = Len(obj)
    /\ outcome = "SamplingRangeError"

\* C6: when any perturbed window of a call is out of range the call
\* returns nothing and raises SamplingRangeError in its first iteration
\* (i = -nstep, j = +nstep): nothing was measured, no callback was made.
C6_RangeErrorIsFatal ==
    (/\ Done /\ Found /\ Span > 10 /\ args.nstep >= 0
     /\ \E di \in Offsets, dj \in Offsets :
           \/ IdxOf(args.featStart) + di < 0
           \/ IdxOf(args.featEnd) + dj >= Len(obj))
    =>  /\ outcome = "SamplingRangeError"
        /\ result = <<>>
        /\ iter = 1
        /\ i = -args.nstep
        /\ j = args.nstep
        /\ Nothing

C6_Witness ==
    /\ Done
    /\ outcome = "SamplingRangeError"
    /\ args.nstep = MaxStep
    /\ IdxOf(args.featStart) >= args.nstep
    /\ IdxOf(args.featEnd) - args.nstep < Len(obj)
    /\ IdxOf(args.featEnd) + 1 >= Len(obj)
    /\ result = <<>>
    /\ callbackLog = <<>>

\* C7: a call whose nstep makes some perturbed window shorter than two
\* samples raises SamplingRangeError.
C7_NarrowSampleRaises ==
    (/\ Done /\ Found /\ Span > 10 /\ args.nstep >= 0
     /\ \E di \in Offsets, dj \in Offsets :
           (IdxOf(args.featEnd) + dj) - (IdxOf(args.featStart) + di) < 2)
    => outcome = "SamplingRangeError"

\* C8: a call over in-range windows reports, for velocity, pEW and area,
\* the arithmetic mean of the values measured on its (2 * nstep + 1)^2
\* windows.
C8_ReportsMean ==
    (Done /\ InRangeCall) =>
        /\ outcome = "returned"
        /\ Len(velocitySamples) = NumWindows
        /\ Len(pEquivWidth) = NumWindows
        /\ Len(areaSamples) = NumWindows
        /\ result[1] = RDiv(RSum(velocitySamples), R(NumWindows))
        /\ result[4] = RDiv(RSum(pEquivWidth), R(NumWindows))
        /\ result[7] = RDiv(RSum(areaSamples), R(NumWindows))

\* C9: a call over in-range windows reports as sampling errors the
\* population standard deviations of the per-window values, which are 0
\* (or NaN) when nstep = 0.
C9_ReportsSamplingError ==
    (Done /\ InRangeCall) =>
        /\ outcome = "returned"
        /\ result[3] = npStd(velocitySamples)
        /\ result[6] = npStd(pEquivWidth)
        /\ result[9] = npStd(areaSamples)
        /\ args.nstep = 0 =>
              \A k \in {3, 6, 9} : result[k] \in {R(0), NaN}

\* C10: a call over in-range windows reports a velocity formal error that
\* is non-zero whenever the fitted means of its windows have a non-zero
\* variance cov[1][1].
C10_FormalErrorFromCovariance ==
    (Done /\ InRangeCall) =>
        /\ outcome = "returned"
        /\ Len(gaussFits) = NumWindows
        /\ (\A k \in 1..Len(gaussFits) :
               IsFinite(gaussFits[k].cov[2][2]) /\ gaussFits[k].cov[2][2] # R(0))
           => result[2] # R(0)

\* ------------------------------------------- the measurements, one by one
\* A second specification: a simulated spectrum is drawn, then one method of
\* the feature accessor is called on it.  obj is the series, args the
\* simulation parameters and the arguments of the call, outcome and result
\* what the call raised or returned, gaussFits the fit velocity() obtained.
MaxGrid == 5

\* Wavelength axes: every increasing grid, even or uneven, of at most
\* MaxGrid wavelengths.
Grids == {SortedSeq(S) : S \in SUBSET (WaveStart..(WaveStart + MaxGrid - 1))}

Slopes == {-1, 0, 2}

Intercepts == {10}

Features == {<<1, 3>>, <<0, 2>>, <<1, -1>>, <<2, 2>>}

Heights == {0, 10}

\* Redshifts z of restFrame(z).
Redshifts == {R(0), <<1, 2>>, R(1)}

\* Arguments of bin(size, method).
BinSizes == {1, 2, 3}

BinMethods == {"sum", "average", "gauss", "median", "made up method"}

\* Arguments of find_peak_wavelength: bounds below, on and above the
\* wavelengths of the series, and the two behaviors.
PeakBounds ==
    {WaveStart - 1, WaveStart, WaveStart + 2, WaveStart + MaxGrid - 1, WaveStart + MaxGrid}

Behaviors == {"min", "max"}

MeasureRestFrames == {WaveStart + 1, WaveStart + 3}

\* simulate.tophat with height=None: the continuum m * wave + b alone.
line(wv, m, b) == [k \in 1..Len(wv) |-> [w |-> wv[k], f |-> R(m * wv[k] + b)]]

\* The continua a caller passes: the simulated line on the series' own
\* wavelengths, the line sampled on the interior of the series only, the
\* series itself, and the pseudo continuum fitted to the series.
Continua ==
    {line(wave(obj), args.m, args.b),
     line(PySlice(wave(obj), 1, -1), args.m, args.b),
     obj}
    \cup (IF fitPseudoContinuumRaises(obj) THEN {} ELSE {fitPseudoContinuum(obj)})

MeasureInit ==
    /\ \E wv \in Grids, m \in Slopes, b \in Intercepts, se \in Features, h \in Heights :
          /\ obj = tophat(wv, m, b, se[1], se[2], h)
          /\ args = [method |-> "none", m |-> m, b |-> b, start |-> se[1],
                     end |-> se[2], height |-> h, continuum |-> <<>>,
                     restFrame |-> 0, curveFit |-> [kind |-> "none"],
                     z |-> R(0), size |-> 0, binMethod |-> "none",
                     lower_bound |-> 0, upper_bound |-> 0, behavior |-> "none"]
    /\ pc = "idle"
    /\ idxStart = 0
    /\ idxEnd = 0
    /\ iter = 0
    /\ i = 0
    /\ j = 0
    /\ sample = <<>>
    /\ velocitySamples = <<>>
    /\ pEquivWidth = <<>>
    /\ areaSamples = <<>>
    /\ gaussFits = <<>>
    /\ callbackLog = <<>>
    /\ outcome = "none"
    /\ result = <<>>

\* What a call leaves alone.
MeasureFrame ==
    UNCHANGED <<obj, idxStart, idxEnd, iter, i, j, sample, velocitySamples,
                pEquivWidth, areaSamples, callbackLog>>

\* feature._fitGaussian()
FitGaussianCall ==
    /\ pc = "idle"
    /\ pc' = "done"
    /\ MeasureFrame
    /\ gaussFits' = gaussFits
    /\ IF fitGaussianRaises(obj)
       THEN /\ args' = [args EXCEPT !.method = "_fitGaussian"]
            /\ outcome' = "TypeError"
            /\ result' = <<>>
       ELSE \E cf \in CurveFitOutcomes(obj) :
               /\ args' = [args EXCEPT !.method = "_fitGaussian", !.curveFit = cf]
               /\ outcome' = "returned"
               /\ result' = fitGaussian(obj, cf)

\* feature.velocity(restFrame)
VelocityCall ==
    /\ pc = "idle"
    /\ pc' = "done"
    /\ MeasureFrame
    /\ \E restFrame \in MeasureRestFrames :
          IF fitGaussianRaises(obj)
          THEN /\ args' = [args EXCEPT !.method = "velocity", !.restFrame = restFrame]
               /\ outcome' = "TypeError"
               /\ gaussFits' = gaussFits
               /\ result' = <<>>
          ELSE \E cf \in CurveFitOutcomes(obj) :
                  /\ args' = [args EXCEPT !.method = "velocity",
                                          !.restFrame = restFrame, !.curveFit = cf]
                  /\ outcome' = "returned"
                  /\ gaussFits' = <<fitGaussian(obj, cf)>>
                  /\ result' = velocity(restFrame, fitGaussian(obj, cf))

\* calcPseudoContinuum(series).fitPseudoContinuum()
FitPseudoContinuumCall ==
    /\ pc = "idle"
    /\ pc' = "done"
    /\ MeasureFrame
    /\ gaussFits' = gaussFits
    /\ args' = [args EXCEPT !.method = "fitPseudoContinuum"]
    /\ IF fitPseudoContinuumRaises(obj)
       THEN /\ outcome' = "IndexError"
            /\ result' = <<>>
       ELSE /\ outcome' = "returned"
            /\ result' = fitPseudoContinuum(obj)

\* feature.fit_pseudo_continuum()
FitPseudoContinuumArrayCall ==
    /\ pc = "idle"
    /\ pc' = "done"
    /\ MeasureFrame
    /\ gaussFits' = gaussFits
    /\ args' = [args EXCEPT !.method = "fit_pseudo_continuum"]
    /\ IF fitPseudoContinuumRaises(obj)
       THEN /\ outcome' = "IndexError"
            /\ result' = <<>>
       ELSE /\ outcome' = "returned"
            /\ result' = fit_pseudo_continuum(obj)

\* feature._continuum_area(continuum)
ContinuumAreaCall ==
    /\ pc = "idle"
    /\ pc' = "done"
    /\ MeasureFrame
    /\ gaussFits' = gaussFits
    /\ \E continuum \in Continua :
          /\ args' = [args EXCEPT !.method = "_continuum_area", !.continuum = continuum]
          /\ IF continuumAreaRaises(obj, continuum)
             THEN /\ outcome' = "ValueError"
                  /\ result' = <<>>
             ELSE /\ outcome' = "returned"
                  /\ result' = continuumArea(obj, continuum)

\* feature.area(continuum)
AreaCall ==
    /\ pc = "idle"
    /\ pc' = "done"
    /\ MeasureFrame
    /\ gaussFits' = gaussFits
    /\ \E continuum \in Continua :
          /\ args' = [args EXCEPT !.method = "area", !.continuum = continuum]
          /\ IF continuumAreaRaises(obj, continuum)
             THEN /\ outcome' = "ValueError"
                  /\ result' = <<>>
             ELSE /\ outcome' = "returned"
                  /\ result' = area(obj, continuum)

\* feature.pew(continuum)
PewCall ==
    /\ pc = "idle"
    /\ pc' = "done"
    /\ MeasureFrame
    /\ gaussFits' = gaussFits
    /\ \E continuum \in Continua :
          /\ args' = [args EXCEPT !.method = "pew", !.continuum = continuum]
          /\ IF pewRaises(obj)
             THEN /\ outcome' = "IndexError"
                  /\ result' = <<>>
             ELSE /\ outcome' = "returned"
                  /\ result' = pew(obj, continuum)

\* spectrum.restFrame(z)
RestFrameCall ==
    /\ pc = "idle"
    /\ pc' = "done"
    /\ UNCHANGED <<idxStart, idxEnd, iter, i, j, sample, velocitySamples,
                   pEquivWidth, areaSamples, callbackLog, gaussFits>>
    /\ \E z \in Redshifts :
          /\ args' = [args EXCEPT !.method = "restFrame", !.z = z]
          /\ outcome' = "returned"
          /\ obj' = toRestFrame(obj, z).self
          /\ result' = toRestFrame(obj, z).out

\* spectrum.bin(size, method)
BinCall ==
    /\ pc = "idle"
    /\ pc' = "done"
    /\ MeasureFrame
    /\ gaussFits' = gaussFits
    /\ \E size \in BinSizes, method \in BinMethods :
          /\ args' = [args EXCEPT !.method = "bin", !.size = size, !.binMethod = method]
          /\ IF binRaises(method)
             THEN /\ outcome' = "ValueError"
                  /\ result' = <<>>
             ELSE /\ outcome' = "returned"
                  /\ result' = bin(obj, size, method)

\* feature.find_peak_wavelength(lower_bound, upper_bound, behavior)
FindPeakWavelengthCall ==
    /\ pc = "idle"
    /\ pc' = "done"
    /\ MeasureFrame
    /\ gaussFits' = gaussFits
    /\ \E lower_bound \in PeakBounds, upper_bound \in PeakBounds, behavior \in Behaviors :
          /\ lower_bound <= upper_bound
          /\ args' = [args EXCEPT !.method = "find_peak_wavelength",
                                  !.lower_bound = lower_bound,
                                  !.upper_bound = upper_bound,
                                  !.behavior = behavior]
          /\ IF featureNotObserved(obj, lower_bound, upper_bound)
             THEN /\ outcome' = "FeatureNotObserved"
                  /\ result' = <<>>
             ELSE /\ outcome' = "returned"
                  /\ result' = find_peak_wavelength(obj, lower_bound, upper_bound, behavior)

MeasureNext ==
    \/ FitGaussianCall
    \/ VelocityCall
    \/ FitPseudoContinuumCall
    \/ FitPseudoContinuumArrayCall
    \/ ContinuumAreaCall
    \/ AreaCall
    \/ PewCall
    \/ RestFrameCall
    \/ BinCall
    \/ FindPeakWavelengthCall

MeasureSpec == MeasureInit /\ [][MeasureNext]_vars

\* ----------------------------------------- the measurements: definitions
\* The call of the named method has finished.
Called(method) == pc = "done" /\ args.method = method

\* The optimizer gave up on the window of the call.
FitFailed == args.curveFit.kind = "RuntimeError"

\* ------------------------------------------------------------- the claims
\* C11: when the optimizer fails on a window, _fitGaussian does not raise
\* but returns a fit whose amplitude, mean, standard deviation and offset
\* are NaN and whose 4x4 covariance holds sixteen NaN, and velocity() on
\* that window returns NaN.
C11_FailedFitIsNaN ==
    /\ (Called("_fitGaussian") /\ FitFailed) =>
          /\ outcome = "returned"
          /\ \A f \in {"amplitude", "avg", "stdDev", "offset"} : IsNaN(result[f])
          /\ DOMAIN result.cov = 1..4
          /\ \A r \in 1..4 : DOMAIN result.cov[r] = 1..4
          /\ \A r \in 1..4, c \in 1..4 : IsNaN(result.cov[r][c])
    /\ (Called("velocity") /\ FitFailed) =>
          /\ outcome = "returned"
          /\ IsNaN(result)

C11_Witness ==
    /\ Called("velocity")
    /\ FitFailed
    /\ Len(obj) >= 4
    /\ IsNaN(gaussFits[1].avg)
    /\ IsNaN(result)

\* C12: a call over in-range windows is not ended by a failed Gaussian fit:
\* it visits all (2 nstep + 1)^2 windows and returns nine values; when the
\* fit of some window failed, the mean velocity and the velocity sampling
\* error are NaN while the equivalent widths and areas are those of the
\* windows, untouched by the fit.
C12_FailedFitNotFatal ==
    (Done /\ InRangeCall) =>
        /\ outcome = "returned"
        /\ Len(result) = 9
        /\ Len(gaussFits) = NumWindows
        /\ (\E k \in 1..Len(gaussFits) : IsNaN(gaussFits[k].avg))
           => (IsNaN(result[1]) /\ IsNaN(result[3]))
        /\ result[4] = npMean(pEquivWidth)
        /\ result[7] = npMean(areaSamples)
        /\ ~IsNaN(result[4])
        /\ ~IsNaN(result[7])

\* velocity() returned for a converged fit; the fitted mean is the rational
\* FittedMean[1] / FittedMean[2].
VelocityReturned == Called("velocity") /\ outcome = "returned" /\ ~FitFailed

FittedMean == gaussFits[1].avg

\* With r = (restFrame - mean) / restFrame + 1 = P / Q.
RatioP == 2 * args.restFrame * FittedMean[2] - FittedMean[1]

RatioQ == args.restFrame * FittedMean[2]

ContinuumFitted ==
    /\ pc = "done"
    /\ args.method \in {"fitPseudoContinuum", "fit_pseudo_continuum"}
    /\ outcome = "returned"

ContinuumAt(k) == IF args.method = "fitPseudoContinuum" THEN result[k].f ELSE result[k]

FirstWave == obj[1].w

LastWave == obj[Len(obj)].w

\* C15: the pseudo continuum of a window whose end wavelengths x0 and x1
\* differ is, at every wavelength of the window, the line through (x0, y0)
\* and (x1, y1): it equals y0 at x0 and y1 at x1, is fixed by the two end
\* samples alone, and is m x + b when the flux lies on that line at both ends.
C15_LineThroughEndpoints ==
    (ContinuumFitted /\ Len(obj) >= 1 /\ FirstWave # LastWave) =>
        /\ Len(result) = Len(obj)
        /\ args.method = "fitPseudoContinuum" => wave(result) = wave(obj)
        /\ \A k \in 1..Len(obj) :
              RMul(ContinuumAt(k), R(LastWave - FirstWave))
                = RAdd(RMul(obj[1].f, R(LastWave - obj[k].w)),
                       RMul(obj[Len(obj)].f, R(obj[k].w - FirstWave)))
        /\ ContinuumAt(1) = obj[1].f
        /\ ContinuumAt(Len(obj)) = obj[Len(obj)].f
        /\ (/\ obj[1].f = R(args.m * FirstWave + args.b)
            /\ obj[Len(obj)].f = R(args.m * LastWave + args.b))
           => \A k \in 1..Len(obj) : ContinuumAt(k) = R(args.m * obj[k].w + args.b)

C15_Witness ==
    /\ ContinuumFitted
    /\ args.method = "fitPseudoContinuum"
    /\ Len(obj) >= 3
    /\ \E k \in 2..(Len(obj) - 1) : obj[k].f # result[k].f
    /\ result[1].f = obj[1].f
    /\ result[1].f # result[Len(obj)].f

\* C16: fitting the pseudo continuum of a degenerate window, one of at most
\* one sample, whose first and last wavelengths coincide, ends with an error
\* and returns no continuum.
C16_DegenerateWindowFails ==
    (/\ pc = "done"
     /\ args.method \in {"fitPseudoContinuum", "fit_pseudo_continuum"}
     /\ Len(obj) <= 1)
    => (outcome # "returned" /\ result = <<>>)

\* The simulated continuum m x + b, and the continuum argument of the call
\* being that line sampled on the wavelengths of the series.
LineAt(x) == args.m * x + args.b

OwnLine == args.continuum = line(wave(obj), args.m, args.b)

Uneven == \E k \in 2..(Len(obj) - 1) : obj[k + 1].w - obj[k].w # obj[2].w - obj[1].w

\* C17: for the line m x + b sampled on the wavelengths of the series,
\* _continuum_area is (x_last - x_first) (y(x_first) + y(x_last)) / 2, which
\* is also the composite trapezoidal integral of the continuum's samples,
\* whatever the slope, the intercept and the (even or uneven) grid.
C17_ContinuumAreaOfLine ==
    (Called("_continuum_area") /\ outcome = "returned" /\ OwnLine) =>
        /\ IsFinite(result)
        /\ 2 * result[1]
             = (LastWave - FirstWave) * (LineAt(FirstWave) + LineAt(LastWave)) * result[2]
        /\ result = trapz(flux(args.continuum), RSeq(wave(args.continuum)))

C17_Witness ==
    /\ Called("_continuum_area")
    /\ outcome = "returned"
    /\ OwnLine
    /\ args.m # 0
    /\ Len(obj) >= 3
    /\ Uneven
    /\ result = trapz(flux(args.continuum), RSeq(wave(args.continuum)))

\* The continuum argument of the call is the simulated line sampled on the
\* interior of the series only: the end wavelengths of the series lie
\* outside the range the continuum is sampled on.
InnerLine ==
    /\ Len(obj) >= 3
    /\ args.continuum = line(PySlice(wave(obj), 1, -1), args.m, args.b)

\* C18: when the first and last wavelength of the series lie outside the
\* range the continuum is sampled on, _continuum_area takes the continuum
\* there from the line y = m x + b, extrapolated.
C18_ExtrapolatesContinuum ==
    (Called("_continuum_area") /\ outcome = "returned" /\ InnerLine) =>
        2 * result[1]
          = (LastWave - FirstWave) * (LineAt(FirstWave) + LineAt(LastWave)) * result[2]

\* Twice the composite trapezoidal integral of the flux over the first n
\* samples: the sum of (x[q+1] - x[q]) (y[q] + y[q+1]).
RECURSIVE TwiceFluxIntegral(_)
TwiceFluxIntegral(n) ==
    IF n <= 1 THEN R(0)
    ELSE RAdd(TwiceFluxIntegral(n - 1),
              RMul(R(obj[n].w - obj[n - 1].w), RAdd(obj[n - 1].f, obj[n].f)))

Flat == \A k \in 1..Len(obj) : obj[k].f = obj[1].f

\* C19: area(continuum) is _continuum_area(continuum) minus the composite
\* trapezoidal integral of the flux; for a flat spectrum that is its own
\* continuum the result is exactly 0.
C19_AreaIsDifference ==
    (Called("area") /\ outcome = "returned") =>
        /\ result = RSub(continuumArea(obj, args.continuum),
                         RDiv(TwiceFluxIntegral(Len(obj)), R(2)))
        /\ (Flat /\ args.continuum = obj) => result = R(0)

C19_Witness ==
    /\ Called("area")
    /\ outcome = "returned"
    /\ Flat
    /\ args.continuum = obj
    /\ Len(obj) >= 3
    /\ result = R(0)

\* The simulated top-hat occupies the 0-based indices FeatLo (inclusive) to
\* FeatHi (exclusive), as Python resolves start and end; wave[start] and
\* wave[end] exist and are in order.
FeatLo == IF args.start < 0 THEN Max(Len(obj) + args.start, 0) ELSE Min(args.start, Len(obj))

FeatHi == IF args.end < 0 THEN Max(Len(obj) + args.end, 0) ELSE Min(args.end, Len(obj))

TopHatCall ==
    /\ Called("area")
    /\ outcome = "returned"
    /\ OwnLine
    /\ FeatLo <= FeatHi
    /\ FeatHi <= Len(obj) - 1

WaveAtStart == obj[FeatLo + 1].w

WaveAtEnd == obj[FeatHi + 1].w

\* Twice the integral of (m x + b - height) over [wave[start], wave[end]].
TwiceAnalyticDeficit ==
    (WaveAtEnd - WaveAtStart)
      * (args.m * (WaveAtStart + WaveAtEnd) + 2 * (args.b - args.height))

\* C20 as stated: for a simulated top-hat against its continuum m x + b,
\* area is the integral of (m x + b - height) over [wave[start], wave[end]].
C20_TopHatDeficit ==
    TopHatCall => (IsFinite(result) /\ 2 * result[1] = TwiceAnalyticDeficit * result[2])

\* C20 amended: the same equality for a flat continuum (m = 0) on an evenly
\* spaced grid with the top-hat starting after the first sample.
C20_FlatTopHatDeficit ==
    (TopHatCall /\ args.m = 0 /\ ~Uneven /\ FeatLo >= 1) =>
        (IsFinite(result) /\ 2 * result[1] = TwiceAnalyticDeficit * result[2])

C20_Witness ==
    /\ TopHatCall
    /\ args.m = 0
    /\ ~Uneven
    /\ FeatLo >= 1
    /\ FeatHi > FeatLo
    /\ args.height # args.b
    /\ result = R((WaveAtEnd - WaveAtStart) * (args.b - args.height))
    /\ result # R(0)

\* The continuum argument of the call is given on the wavelengths of the
\* series.
OwnWavelengths == wave(args.continuum) = wave(obj)

\* Twice the composite trapezoidal integral of flux / continuum over the
\* first n samples.
RECURSIVE TwiceRatioIntegral(_)
TwiceRatioIntegral(n) ==
    IF n <= 1 THEN R(0)
    ELSE RAdd(TwiceRatioIntegral(n - 1),
              RMul(R(obj[n].w - obj[n - 1].w),
                   RAdd(RDiv(obj[n - 1].f, args.continuum[n - 1].f),
                        RDiv(obj[n].f, args.continuum[n].f))))

NonZero == \A k \in 1..Len(obj) : IsFinite(obj[k].f) /\ obj[k].f # R(0)

\* C21: pew(continuum) is (x_last - x_first) minus the composite
\* trapezoidal integral of flux / continuum over the wavelengths of the
\* window; for a spectrum that is its own non-zero continuum, whatever its
\* shape, pew is exactly 0.
C21_PewIsWidthMinusRatio ==
    (Called("pew") /\ outcome = "returned") =>
        /\ OwnWavelengths =>
              result = RSub(R(LastWave - FirstWave),
                            RDiv(TwiceRatioIntegral(Len(obj)), R(2)))
        /\ (args.continuum = obj /\ NonZero) => result = R(0)

C21_Witness ==
    /\ Called("pew")
    /\ outcome = "returned"
    /\ args.continuum = obj
    /\ NonZero
    /\ Len(obj) >= 3
    /\ ~Flat
    /\ Uneven
    /\ result = R(0)

\* The call was made on a top-hat of height 0 against its continuum m x + b
\* on the wavelengths of the series; wave[start] and wave[end] exist.
PewTopHatCall ==
    /\ Called("pew")
    /\ outcome = "returned"
    /\ OwnLine
    /\ args.height = 0
    /\ FeatLo <= FeatHi
    /\ FeatHi <= Len(obj) - 1

\* The normalized flux flux / continuum at the 0-based index idx.
NormFlux(idx) == RDiv(obj[idx + 1].f, args.continuum[idx + 1].f)

\* C22: for a top-hat of flux 0 from index s (inclusive) to e (exclusive) on
\* a linear continuum, pew(continuum) is w h1 + w (h2 - h1) / 2 with
\* w = wave[e] - wave[s] and h1, h2 the normalized flux at s and e.
C22_PewOfTopHat ==
    PewTopHatCall =>
        result = RAdd(RMul(R(WaveAtEnd - WaveAtStart), NormFlux(FeatLo)),
                      RDiv(RMul(R(WaveAtEnd - WaveAtStart),
                                RSub(NormFlux(FeatHi), NormFlux(FeatLo))),
                           R(2)))

\* C23: restFrame(z) returns a new series of the same length whose
\* wavelength at every position is the original one divided by 1 + z and
\* whose flux is the original one, and leaves the series it was called on
\* as it was.
C23_RestFrameIsACopy ==
    [][(pc' = "done" /\ args'.method = "restFrame") =>
          /\ outcome' = "returned"
          /\ obj' = obj
          /\ Len(result') = Len(obj)
          /\ \A k \in 1..Len(obj) :
                /\ result'[k].f = obj[k].f
                /\ IsFinite(result'[k].w)
                /\ result'[k].w[1] * (args'.z[2] + args'.z[1])
                     = obj[k].w * args'.z[2] * result'[k].w[2]]_vars

C23_Witness ==
    /\ Called("restFrame")
    /\ outcome = "returned"
    /\ args.z = <<1, 2>>
    /\ Len(obj) >= 2
    /\ \A k \in 1..Len(obj) : IsFinite(obj[k].f) /\ obj[k].w \in Int
    /\ result[1].w = <<2 * obj[1].w, 3>>
    /\ result[1].f = obj[1].f

\* C24: bin(size, method) on a non-empty series returns a series of the
\* same length on the same wavelengths when method is 'sum', 'average',
\* 'median' or 'gauss', and for every other method raises ValueError and
\* returns nothing.
C24_BinKeepsAxis ==
    Called("bin") =>
        IF args.binMethod \in {"sum", "average", "median", "gauss"}
        THEN Len(obj) >= 1 =>
             /\ outcome = "returned"
             /\ Len(result) = Len(obj)
             /\ wave(result) = wave(obj)
        ELSE /\ outcome = "ValueError"
             /\ result = <<>>

C24_Witness ==
    /\ Called("bin")
    /\ args.binMethod = "made up method"
    /\ Len(obj) >= 3
    /\ outcome = "ValueError"
    /\ result = <<>>

\* ------------------------------------------- construction of an accessor
\* A third specification: a series with any wavelength axis, sorted or not,
\* is wrapped in an accessor (Base.__init__); validate() or a measurement
\* is then called on the accessor.  pc is "idle" before the accessor is
\* built, "constructed" once it is, "done" after the call.
MaxAxis == 3

\* Every wavelength axis of at most MaxAxis wavelengths: increasing,
\* decreasing, unordered, with or without repeated wavelengths.
Axes == UNION {[1..n -> WaveStart..(WaveStart + 2)] : n \in 0..MaxAxis}

AccessorInit ==
    /\ \E wv \in Axes : obj = [k \in 1..Len(wv) |-> [w |-> wv[k], f |-> R(k)]]
    /\ pc = "idle"
    /\ args = [method |-> "none"]
    /\ idxStart = 0
    /\ idxEnd = 0
    /\ iter = 0
    /\ i = 0
    /\ j = 0
    /\ sample = <<>>
    /\ velocitySamples = <<>>
    /\ pEquivWidth = <<>>
    /\ areaSamples = <<>>
    /\ gaussFits = <<>>
    /\ callbackLog = <<>>
    /\ outcome = "none"
    /\ result = <<>>

AccessorFrame ==
    UNCHANGED <<obj, idxStart, idxEnd, iter, i, j, sample, velocitySamples,
                pEquivWidth, areaSamples, gaussFits, callbackLog>>

\* series.feature: Base.__init__(series)
Construct ==
    /\ pc = "idle"
    /\ AccessorFrame
    /\ args' = [method |-> "__init__"]
    /\ result' = <<>>
    /\ IF initRaises(obj)
       THEN /\ pc' = "done"
            /\ outcome' = "ValueError"
       ELSE /\ pc' = "constructed"
            /\ outcome' = "none"

\* accessor.validate()
ValidateCall ==
    /\ pc = "constructed"
    /\ pc' = "done"
    /\ AccessorFrame
    /\ args' = [method |-> "validate"]
    /\ result' = <<>>
    /\ IF validateRaises(obj)
       THEN outcome' = "ValueError"
       ELSE outcome' = "returned"

\* accessor._flux_area(), a measurement
FluxAreaCall ==
    /\ pc = "constructed"
    /\ pc' = "done"
    /\ AccessorFrame
    /\ args' = [method |-> "_flux_area"]
    /\ outcome' = "returned"
    /\ result' = fluxArea(obj)

AccessorNext ==
    \/ Construct
    \/ ValidateCall
    \/ FluxAreaCall

AccessorSpec == AccessorInit /\ [][AccessorNext]_vars

StrictlyIncreasing == \A k \in 1..(Len(obj) - 1) : obj[k].w < obj[k + 1].w

\* C25: a series whose wavelengths are not strictly increasing (decreasing,
\* unordered, or with a repeated wavelength) is rejected with an error when
\* the accessor is constructed: no accessor exists for it and no
\* measurement runs on it.
C25_UnsortedRejectedAtConstruction ==
    (pc # "idle" /\ ~StrictlyIncreasing) =>
        /\ pc = "done"
        /\ args.method = "__init__"
        /\ outcome = "ValueError"

\* The samples of the series inside the bounds of the call, both bounds
\* included, and those of them with the largest flux.
InBounds == {k \in 1..Len(obj) : args.lower_bound <= obj[k].w /\ obj[k].w <= args.upper_bound}

Peaks == {k \in InBounds : \A q \in InBounds : ~RLess(obj[k].f, obj[q].f)}

\* C26: find_peak_wavelength returns a wavelength of the series within
\* [lower_bound, upper_bound] whose flux is the maximum flux over that
\* range; among several such wavelengths 'min' returns the smallest and
\* 'max' the largest.
C26_PeakWavelength ==
    (Called("find_peak_wavelength") /\ outcome = "returned") =>
        /\ \E k \in Peaks : obj[k].w = result
        /\ args.behavior = "min" => \A k \in Peaks : result <= obj[k].w
        /\ args.behavior = "max" => \A k \in Peaks : result >= obj[k].w

C26_Witness ==
    /\ Called("find_peak_wavelength")
    /\ outcome = "returned"
    /\ args.behavior = "max"
    /\ Cardinality(Peaks) >= 2
    /\ Cardinality(InBounds) > Cardinality(Peaks)
    /\ \A k \in Peaks : result >= obj[k].w

\* C27: find_peak_wavelength raises FeatureNotObserved exactly when no
\* wavelength of the series lies in [lower_bound, upper_bound], bounds
\* included; with a wavelength in that range it returns a peak.
C27_NotObservedIffEmptyRange ==
    Called("find_peak_wavelength") =>
        /\ (InBounds = {}) => outcome = "FeatureNotObserved"
        /\ (InBounds # {}) => (outcome = "returned" /\ result \in {obj[k].w : k \in InBounds})

\* x is one of the wavelengths of the series.
IsWavelength(x) == \E k \in 1..Len(obj) : obj[k].w = x

\* C28: sampleFeatureProperties locates featStart and featEnd by equality
\* with a wavelength of the series: when either is not exactly one of the
\* wavelengths, the call ends with IndexError (not ValueError nor
\* SamplingRangeError) before any window is sliced or measured.
C28_InexactBoundaryIsIndexError ==
    (Done /\ (~IsWavelength(args.featStart) \/ ~IsWavelength(args.featEnd))) =>
        /\ outcome = "IndexError"
        /\ iter = 0
        /\ Nothing

C28_Witness ==
    /\ Done
    /\ IsWavelength(args.featStart)
    /\ ~IsWavelength(args.featEnd)
    /\ args.featEnd > args.featStart
    /\ args.nstep > 0
    /\ outcome = "IndexError"
    /\ Nothing

\* ------------------------------------------------ the supernova cursor
\* A fourth specification: SpectralAccessor (src/leed/app/utils.py), the
\* data access object of the application.  Here obj holds the fields of the
\* instance: objIds, the list of object ids (1..n); func, the number of
\* spectra accessFunc returns for each id (0: an empty data frame);
\* groupBy, whether the data is grouped into spectra; currentObjectIndex,
\* currentSpectrumIndex and snData, the number of spectra of the data in
\* memory (-1: None).  pc is "idle" before __init__, "ready" while the
\* accessor exists, "done" when __init__ raised.
MaxSNe == 3

MaxSpectra == 2

\* The data sets an accessor is built on.
DataSets ==
    UNION {[objIds : {[k \in 1..n |-> k]}, func : [1..n -> 0..MaxSpectra],
            groupBy : BOOLEAN] : n \in 0..MaxSNe}

\* A method's effect: the instance it leaves and the exception it raised.
Effect(self, exc) == [self |-> self, exc |-> exc]

\* objIds[idx] of a Python list raises IndexError outside -len .. len - 1.
currentSNRaises(self) ==
    \/ self.currentObjectIndex >= Len(self.objIds)
    \/ self.currentObjectIndex < -Len(self.objIds)

\* accessFunc(currentSN), for a valid index (negative ones count from the
\* end).
accessFunc(self) ==
    self.func[IF self.currentObjectIndex < 0
              THEN Len(self.objIds) + self.currentObjectIndex + 1
              ELSE self.currentObjectIndex + 1]

\* SpectralAccessor.availableSpecIds: the spectrum ids 1..snData when the
\* data is grouped, the empty list otherwise.
availableSpecIds(self) ==
    IF self.groupBy THEN [k \in 1..self.snData |-> k] ELSE <<>>

\* SpectralAccessor.loadNextSN, lines 132-140.
RECURSIVE loadNextSN(_)
loadNextSN(self) ==
    IF self.currentObjectIndex >= Len(self.objIds)
    THEN Effect(self, "StopIteration")
    ELSE LET moved == [self EXCEPT !.currentObjectIndex = @ + 1]
         IN  IF currentSNRaises(moved)
             THEN Effect(moved, "IndexError")
             ELSE LET loaded == [moved EXCEPT !.snData = accessFunc(moved)]
                  IN  IF loaded.snData = 0
                      THEN LET rec == loadNextSN(loaded)
                           IN  IF rec.exc # "none" THEN rec
                               ELSE Effect([rec.self EXCEPT !.currentSpectrumIndex = 0],
                                           "none")
                      ELSE Effect([loaded EXCEPT !.currentSpectrumIndex = 0], "none")

\* SpectralAccessor.loadPreviousSN, lines 145-153.
RECURSIVE loadPreviousSN(_)
loadPreviousSN(self) ==
    IF self.currentObjectIndex <= 0
    THEN Effect(self, "StopIteration")
    ELSE LET moved == [self EXCEPT !.currentObjectIndex = @ - 1]
         IN  IF currentSNRaises(moved)
             THEN Effect(moved, "IndexError")
             ELSE LET loaded == [moved EXCEPT !.snData = accessFunc(moved)]
                      first(s) == Min(Len(availableSpecIds(s)) - 1, 0)
                  IN  IF loaded.snData = 0
                      THEN LET rec == loadPreviousSN(loaded)
                           IN  IF rec.exc # "none" THEN rec
                               ELSE Effect([rec.self EXCEPT
                                               !.currentSpectrumIndex = first(rec.self)],
                                           "none")
                      ELSE Effect([loaded EXCEPT !.currentSpectrumIndex = first(loaded)],
                                  "none")

\* SpectralAccessor.loadNextSpectrum, lines 158-162.
loadNextSpectrum(self) ==
    IF self.currentSpectrumIndex + 1 >= Len(availableSpecIds(self))
    THEN Effect(self, "StopIteration")
    ELSE Effect([self EXCEPT !.currentSpectrumIndex = @ + 1], "none")

\* SpectralAccessor.loadPreviousSpectrum, lines 167-170.
loadPreviousSpectrum(self) ==
    IF self.currentSpectrumIndex <= 0
    THEN Effect(self, "StopIteration")
    ELSE Effect([self EXCEPT !.currentSpectrumIndex = @ - 1], "none")

\* SpectralAccessor.goTo, lines 192-205.
goTo(self, objId, specId) ==
    IF objId \notin 1..Len(self.objIds)
    THEN Effect(self, "ValueError")
    ELSE LET moved  == [self EXCEPT !.currentObjectIndex = objId - 1]
             loaded == [moved EXCEPT !.snData = accessFunc(moved)]
         IN  IF specId \in 1..Len(availableSpecIds(loaded))
             THEN Effect([loaded EXCEPT !.currentSpectrumIndex = specId - 1], "none")
             ELSE Effect([loaded EXCEPT !.currentSpectrumIndex = 0], "ValueError")

CursorInit ==
    /\ \E ds \in DataSets :
          obj = [objIds |-> ds.objIds, func |-> ds.func, groupBy |-> ds.groupBy,
                 currentObjectIndex |-> -1, currentSpectrumIndex |-> 0, snData |-> -1]
    /\ pc = "idle"
    /\ args = [method |-> "none"]
    /\ idxStart = 0
    /\ idxEnd = 0
    /\ iter = 0
    /\ i = 0
    /\ j = 0
    /\ sample = <<>>
    /\ velocitySamples = <<>>
    /\ pEquivWidth = <<>>
    /\ areaSamples = <<>>
    /\ gaussFits = <<>>
    /\ callbackLog = <<>>
    /\ outcome = "none"
    /\ result = <<>>

CursorFrame ==
    UNCHANGED <<idxStart, idxEnd, iter, i, j, sample, velocitySamples,
                pEquivWidth, areaSamples, gaussFits, callbackLog, result>>

\* The accessor after a method with the given effect has been called.
Returns(method, effect) ==
    /\ obj' = effect.self
    /\ args' = [method |-> method]
    /\ outcome' = IF effect.exc = "none" THEN "returned" ELSE effect.exc
    /\ CursorFrame

\* SpectralAccessor(accessFunc, objectIds, groupBy), lines 77-87.
SpectralAccessorInit ==
    /\ pc = "idle"
    /\ IF Len(obj.objIds) = 0
       THEN /\ Returns("__init__", Effect(obj, "ValueError"))
            /\ pc' = "done"
       ELSE /\ Returns("__init__", loadNextSN(obj))
            /\ pc' = IF loadNextSN(obj).exc = "none" THEN "ready" ELSE "done"

LoadNextSN ==
    /\ pc = "ready"
    /\ pc' = pc
    /\ Returns("loadNextSN", loadNextSN(obj))

LoadPreviousSN ==
    /\ pc = "ready"
    /\ pc' = pc
    /\ Returns("loadPreviousSN", loadPreviousSN(obj))

LoadNextSpectrum ==
    /\ pc = "ready"
    /\ pc' = pc
    /\ Returns("loadNextSpectrum", loadNextSpectrum(obj))

LoadPreviousSpectrum ==
    /\ pc = "ready"
    /\ pc' = pc
    /\ Returns("loadPreviousSpectrum", loadPreviousSpectrum(obj))

GoTo ==
    /\ pc = "ready"
    /\ pc' = pc
    /\ \E objId \in 0..MaxSNe, specId \in 0..MaxSpectra :
          Returns("goTo", goTo(obj, objId, specId))

CursorNext ==
    \/ SpectralAccessorInit
    \/ LoadNextSN
    \/ LoadPreviousSN
    \/ LoadNextSpectrum
    \/ LoadPreviousSpectrum
    \/ GoTo

CursorSpec == CursorInit /\ [][CursorNext]_vars

\* C29: while the accessor exists its supernova cursor is an index of
\* objectIds, 0 <= currentObjectIndex < len(objectIds), whatever calls were
\* made and whether they raised; loadNextSN, when it cannot advance, raises
\* StopIteration.
C29_CursorStaysValid ==
    pc = "ready" =>
        /\ 0 <= obj.currentObjectIndex
        /\ obj.currentObjectIndex < Len(obj.objIds)
        /\ (args.method = "loadNextSN" /\ outcome # "returned")
           => outcome = "StopIteration"

\* C30: after loadPreviousSN has succeeded on an accessor grouped into
\* spectra, the spectrum cursor is on the last spectrum of the supernova
\* now loaded: currentSpectrumIndex = len(availableSpecIds) - 1.
C30_PreviousSNLandsOnLastSpectrum ==
    (/\ pc = "ready"
     /\ args.method = "loadPreviousSN"
     /\ outcome = "returned"
     /\ obj.groupBy)
    => obj.currentSpectrumIndex = Len(availableSpecIds(obj)) - 1

====
